---- MODULE Spec2Model ----
(***************************************************************************)
(* A model of the NFL running-back scraping and matchup pipeline:          *)
(*   RB_gamelog.py              roster extraction and its team batch loop  *)
(*   starting_rbs_gamelog.py    game-log row extraction and player loop    *)
(*   compare_rb_vs_defenses.py  identifier tables, opponent normaliser,    *)
(*                              defense ranking and matchup aggregation    *)
(* Text is modelled as a sequence of one-character strings, so that the    *)
(* string operations of the code (replace, lower, strip, split, int,       *)
(* float, isdigit, regular-expression search) are computed, not assumed.   *)
(***************************************************************************)
EXTENDS Integers, Sequences, FiniteSets, TLC

VARIABLES
    opp_string,         \* normalize_opponent_abbrev: its argument
    opp_abbrev,         \* normalize_opponent_abbrev: its return value
    opp_pc,             \* "call" before the call, "done" after it
    page,               \* fetch_team_roster: the links visited so far
    results,            \* fetch_team_roster: results
    seen_ids,           \* fetch_team_roster: seen_ids
    team_abbrevs,       \* scrape_all_teams: the argument
    web,                \* what the site serves for the roster URLs of the pool's teams
    team_i,             \* scrape_all_teams: teams visited so far
    all_rows,           \* scrape_all_teams: all_rows
    team_log,           \* the teams named by "Fetching roster for", in order
    starters,           \* scrape_all_starting_rb_gamelogs: rows of the input CSV
    logs,               \* what the site serves for each player's gamelog URL
    player_i,           \* scrape_all_starting_rb_gamelogs: rows visited so far
    all_games,          \* scrape_all_starting_rb_gamelogs: all_games
    player_log,         \* the players named by "Fetching game log for", in order
    cells,              \* fetch_player_gamelog: cell_texts of the row just visited
    games,              \* fetch_player_gamelog: games
    row_i,              \* fetch_player_gamelog: data rows visited so far
    csv_def,            \* defense_stats.csv: rows of (Team, Rushing Yards text)
    rank_pc,            \* load_defense_rankings: "call", "done" or the error raised
    top16_defenses,     \* load_defense_rankings: first return value
    bottom16_defenses,  \* load_defense_rankings: second return value
    log_rows,           \* the game-log table rows behind starting_rbs_gamelog.csv
    df_games,           \* analyze_rb_vs_defenses: df_games
    tiers,              \* analyze_rb_vs_defenses: (top16_defenses, bottom16_defenses)
    results_top,        \* analyze_rb_vs_defenses: results_top
    results_bottom,     \* analyze_rb_vs_defenses: results_bottom
    agg_pc,             \* "load", "analyze", "done", "again" (a second call done)
    main_pc,            \* compare_rb_vs_defenses.main: the statement it is at, or "raised"
    out_top,            \* data/rb_performance_vs_top16_defenses.csv
    out_bottom,         \* data/rb_performance_vs_bottom16_defenses.csv
    depth_abbrevs,      \* scrape_all_starting_rbs: the argument
    depth_web,          \* what the site serves for the depth-chart URLs of the pool's teams
    depth_i,            \* scrape_all_starting_rbs: teams visited so far
    depth_rows          \* scrape_all_starting_rbs: rows

vars == << opp_string, opp_abbrev, opp_pc, page, results, seen_ids,
           team_abbrevs, web, team_i, all_rows, team_log, starters, logs,
           player_i, all_games, player_log, cells, games, row_i, csv_def, rank_pc, top16_defenses,
           bottom16_defenses, log_rows, df_games, tiers, results_top,
           results_bottom, agg_pc, main_pc, out_top, out_bottom,
           depth_abbrevs, depth_web, depth_i, depth_rows >>

normVars == << opp_string, opp_abbrev, opp_pc >>
rosterVars == << page, results, seen_ids >>
teamVars == << team_abbrevs, web, team_i, all_rows, team_log >>
playerVars == << starters, logs, player_i, all_games, player_log >>
rowVars == << cells, games, row_i >>
rankVars == << csv_def, rank_pc, top16_defenses, bottom16_defenses >>
aggVars == << log_rows, df_games, tiers, results_top, results_bottom, agg_pc >>
mainVars == << main_pc, out_top, out_bottom >>
depthVars == << depth_abbrevs, depth_web, depth_i, depth_rows >>

(***************************************************************************)
(* Text                                                                    *)
(***************************************************************************)
LowerLetters == << "a","b","c","d","e","f","g","h","i","j","k","l","m",
                   "n","o","p","q","r","s","t","u","v","w","x","y","z" >>
UpperLetters == << "A","B","C","D","E","F","G","H","I","J","K","L","M",
                   "N","O","P","Q","R","S","T","U","V","W","X","Y","Z" >>
Digits == << "0","1","2","3","4","5","6","7","8","9" >>

Range(s) == { s[i] : i \in DOMAIN s }
IndexOf(s, c) == CHOOSE i \in DOMAIN s : s[i] = c

IsDigitChar(c) == c \in Range(Digits)
DigitVal(c) == IndexOf(Digits, c) - 1
\* \w of the re module, for the characters of the model
IsWordChar(c) ==
    c \in Range(LowerLetters) \cup Range(UpperLetters) \cup Range(Digits) \cup {"_"}
IsSpace(c) == c = " "

LowerChar(c) ==
    IF c \in Range(UpperLetters) THEN LowerLetters[IndexOf(UpperLetters, c)] ELSE c
UpperChar(c) ==
    IF c \in Range(LowerLetters) THEN UpperLetters[IndexOf(LowerLetters, c)] ELSE c
\* str.lower, str.upper
StrLower(s) == [i \in DOMAIN s |-> LowerChar(s[i])]
StrUpper(s) == [i \in DOMAIN s |-> UpperChar(s[i])]

StartsWith(s, p) == Len(s) >= Len(p) /\ SubSeq(s, 1, Len(p)) = p

\* str.replace(old, ''): every non-overlapping occurrence, left to right
RECURSIVE StrRemoveAll(_, _)
StrRemoveAll(s, old) ==
    IF Len(s) < Len(old) \/ Len(old) = 0 THEN s
    ELSE IF StartsWith(s, old)
         THEN StrRemoveAll(SubSeq(s, Len(old) + 1, Len(s)), old)
         ELSE << s[1] >> \o StrRemoveAll(Tail(s), old)

\* str.strip
RECURSIVE StrLStrip(_)
StrLStrip(s) == IF s # << >> /\ IsSpace(s[1]) THEN StrLStrip(Tail(s)) ELSE s
RECURSIVE StrRStrip(_)
StrRStrip(s) ==
    IF s # << >> /\ IsSpace(s[Len(s)]) THEN StrRStrip(SubSeq(s, 1, Len(s) - 1)) ELSE s
StrStrip(s) == StrRStrip(StrLStrip(s))

\* `sub in s`
Contains(s, sub) ==
    \E i \in 1..(Len(s) - Len(sub) + 1) : SubSeq(s, i, i + Len(sub) - 1) = sub

\* text.split()[0] when text.split() is not empty, else the empty text
RECURSIVE TakeToken(_)
TakeToken(s) ==
    IF s = << >> \/ IsSpace(s[1]) THEN << >> ELSE << s[1] >> \o TakeToken(Tail(s))
FirstToken(s) == TakeToken(StrLStrip(s))

\* str.isdigit
IsDigitStr(s) == s # << >> /\ \A i \in DOMAIN s : IsDigitChar(s[i])

RECURSIVE DigitsValue(_)
DigitsValue(s) ==
    IF s = << >> THEN 0 ELSE 10 * DigitsValue(SubSeq(s, 1, Len(s) - 1)) + DigitVal(s[Len(s)])

HasSign(s) == s # << >> /\ s[1] \in {"-", "+"}
Unsigned(s) == IF HasSign(s) THEN Tail(s) ELSE s
\* int(s) succeeds: an optional sign and decimal digits
IntOk(s) == IsDigitStr(Unsigned(s))
IntValue(s) ==
    IF HasSign(s) /\ s[1] = "-" THEN 0 - DigitsValue(Tail(s)) ELSE DigitsValue(Unsigned(s))

\* float(s) succeeds: an optional sign, digits with at most one decimal point
FloatOk(s) ==
    LET u == Unsigned(s)
        dots == { i \in DOMAIN u : u[i] = "." }
    IN  /\ Cardinality(dots) <= 1
        /\ \E i \in DOMAIN u : IsDigitChar(u[i])
        /\ \A i \in DOMAIN u : IsDigitChar(u[i]) \/ u[i] = "."
\* float(s) as a decimal fraction: mantissa / 10^places
FloatValue(s) ==
    LET u == Unsigned(s)
        dot == IF \E i \in DOMAIN u : u[i] = "." THEN IndexOf(u, ".") ELSE Len(u) + 1
        mant == DigitsValue(SubSeq(u, 1, dot - 1) \o SubSeq(u, dot + 1, Len(u)))
    IN  [ mantissa |-> IF HasSign(s) /\ s[1] = "-" THEN 0 - mant ELSE mant,
          places |-> IF dot > Len(u) THEN 0 ELSE Len(u) - dot ]

(***************************************************************************)
(* Identifier tables                                                       *)
(***************************************************************************)
\* The NaN of an object column (a failed .map lookup, an empty CSV cell)
NaN == << "NaN" >>
\* None returned where text is expected
None == << "None" >>

\* TEAM_NAME_TO_ABBREV with the Rams under the Chargers' abbreviation
TEAM_NAME_TO_ABBREV_rams ==
    << << "New York Giants",         <<"n","y","g">> >>,
       << "Cincinnati Bengals",      <<"c","i","n">> >>,
       << "Buffalo Bills",           <<"b","u","f">> >>,
       << "Miami Dolphins",          <<"m","i","a">> >>,
       << "Chicago Bears",           <<"c","h","i">> >>,
       << "Washington Commanders",   <<"w","s","h">> >>,
       << "Atlanta Falcons",         <<"a","t","l">> >>,
       << "Tennessee Titans",        <<"t","e","n">> >>,
       << "Minnesota Vikings",       <<"m","i","n">> >>,
       << "New York Jets",           <<"n","y","j">> >>,
       << "Carolina Panthers",       <<"c","a","r">> >>,
       << "Dallas Cowboys",          <<"d","a","l">> >>,
       << "New Orleans Saints",      <<"n","o">> >>,
       << "Baltimore Ravens",        <<"b","a","l">> >>,
       << "Philadelphia Eagles",     <<"p","h","i">> >>,
       << "Arizona Cardinals",       <<"a","r","i">> >>,
       << "Los Angeles Chargers",    <<"l","a","c">> >>,
       << "San Francisco 49ers",     <<"s","f">> >>,
       << "Pittsburgh Steelers",     <<"p","i","t">> >>,
       << "Las Vegas Raiders",       <<"l","v">> >>,
       << "Los Angeles Rams",        <<"l","a","c">> >>,
       << "Cleveland Browns",        <<"c","l","e">> >>,
       << "Detroit Lions",           <<"d","e","t">> >>,
       << "Kansas City Chiefs",      <<"k","c">> >>,
       << "Tampa Bay Buccaneers",    <<"t","b">> >>,
       << "Indianapolis Colts",      <<"i","n","d">> >>,
       << "Green Bay Packers",       <<"g","b">> >>,
       << "New England Patriots",    <<"n","e">> >>,
       << "Houston Texans",          <<"h","o","u">> >>,
       << "Seattle Seahawks",        <<"s","e","a">> >>,
       << "Denver Broncos",          <<"d","e","n">> >>,
       << "Jacksonville Jaguars",    <<"j","a","x">> >> >>

\* compare_rb_vs_defenses.TEAM_NAME_TO_ABBREV: the dict literal, as its items
TEAM_NAME_TO_ABBREV ==
    << << "New York Giants",         <<"n","y","g">> >>,
       << "Cincinnati Bengals",      <<"c","i","n">> >>,
       << "Buffalo Bills",           <<"b","u","f">> >>,
       << "Miami Dolphins",          <<"m","i","a">> >>,
       << "Chicago Bears",           <<"c","h","i">> >>,
       << "Washington Commanders",   <<"w","s","h">> >>,
       << "Atlanta Falcons",         <<"a","t","l">> >>,
       << "Tennessee Titans",        <<"t","e","n">> >>,
       << "Minnesota Vikings",       <<"m","i","n">> >>,
       << "New York Jets",           <<"n","y","j">> >>,
       << "Carolina Panthers",       <<"c","a","r">> >>,
       << "Dallas Cowboys",          <<"d","a","l">> >>,
       << "New Orleans Saints",      <<"n","o">> >>,
       << "Baltimore Ravens",        <<"b","a","l">> >>,
       << "Philadelphia Eagles",     <<"p","h","i">> >>,
       << "Arizona Cardinals",       <<"a","r","i">> >>,
       << "Los Angeles Chargers",    <<"l","a","c">> >>,
       << "San Francisco 49ers",     <<"s","f">> >>,
       << "Pittsburgh Steelers",     <<"p","i","t">> >>,
       << "Las Vegas Raiders",       <<"l","v">> >>,
       << "Los Angeles Rams",        <<"l","a","r">> >>,
       << "Cleveland Browns",        <<"c","l","e">> >>,
       << "Detroit Lions",           <<"d","e","t">> >>,
       << "Kansas City Chiefs",      <<"k","c">> >>,
       << "Tampa Bay Buccaneers",    <<"t","b">> >>,
       << "Indianapolis Colts",      <<"i","n","d">> >>,
       << "Green Bay Packers",       <<"g","b">> >>,
       << "New England Patriots",    <<"n","e">> >>,
       << "Houston Texans",          <<"h","o","u">> >>,
       << "Seattle Seahawks",        <<"s","e","a">> >>,
       << "Denver Broncos",          <<"d","e","n">> >>,
       << "Jacksonville Jaguars",    <<"j","a","x">> >> >>

\* RB_gamelog.TEAM_ABBREVS
TEAM_ABBREVS ==
    << <<"n","y","g">>, <<"c","i","n">>, <<"b","u","f">>, <<"m","i","a">>, <<"c","h","i">>, <<"w","s","h">>,
       <<"a","t","l">>, <<"t","e","n">>, <<"m","i","n">>, <<"n","y","j">>, <<"c","a","r">>, <<"d","a","l">>,
       <<"n","o">>, <<"b","a","l">>, <<"p","h","i">>, <<"a","r","i">>, <<"l","a","c">>, <<"s","f">>,
       <<"p","i","t">>, <<"l","v">>, <<"l","a","r">>, <<"c","l","e">>, <<"d","e","t">>, <<"k","c">>,
       <<"t","b">>, <<"i","n","d">>, <<"g","b">>, <<"n","e">>, <<"h","o","u">>, <<"s","e","a">>,
       <<"d","e","n">>, <<"j","a","x">> >>

\* starting_rbs.TEAM_ABBREVS
TEAM_ABBREVS_starting_rbs ==
    << <<"n","y","g">>, <<"c","i","n">>, <<"b","u","f">>, <<"m","i","a">>, <<"c","h","i">>, <<"w","s","h">>,
       <<"a","t","l">>, <<"t","e","n">>, <<"m","i","n">>, <<"n","y","j">>, <<"c","a","r">>, <<"d","a","l">>,
       <<"n","o">>, <<"b","a","l">>, <<"p","h","i">>, <<"a","r","i">>, <<"l","a","c">>, <<"s","f">>,
       <<"p","i","t">>, <<"l","v">>, <<"l","a","r">>, <<"c","l","e">>, <<"d","e","t">>, <<"k","c">>,
       <<"t","b">>, <<"i","n","d">>, <<"g","b">>, <<"n","e">>, <<"h","o","u">>, <<"s","e","a">>,
       <<"d","e","n">>, <<"j","a","x">> >>

DictKeys(d) == { d[i][1] : i \in DOMAIN d }
DictValues(d) == { d[i][2] : i \in DOMAIN d }
\* d[k] for a key of the dict literal d (a repeated key keeps its last value)
DictGet(d, k) ==
    d[CHOOSE i \in DOMAIN d : d[i][1] = k /\ \A j \in DOMAIN d : d[j][1] = k => j <= i][2]
\* Series.map(d) on one value: NaN for a value that is no key of d
MapDict(d, k) == IF k \in DictKeys(d) THEN DictGet(d, k) ELSE NaN

(***************************************************************************)
(* compare_rb_vs_defenses.normalize_opponent_abbrev                        *)
(***************************************************************************)
normalize_opponent_abbrev(s) ==
    IF s = NaN \/ s = None \/ s = << >> THEN None
    ELSE LET opp == StrStrip(StrLower(StrRemoveAll(StrRemoveAll(s, << "@" >>), << "v", "s" >>)))
         IN  IF Len(opp) > 3 THEN None ELSE opp

\* Longest opponent text drawn
MaxOppLen == 4
OppAlphabet == { "@", "v", "s", "S", "F", " " }
TextsUpTo(alphabet, n) == UNION { [1..k -> alphabet] : k \in 0..n }
OppInputs == TextsUpTo(OppAlphabet, MaxOppLen) \cup { NaN }

NormInit ==
    /\ opp_string \in OppInputs
    /\ opp_abbrev = None
    /\ opp_pc = "call"
NormIdle ==
    /\ opp_string = << >>
    /\ opp_abbrev = None
    /\ opp_pc = "call"

NormalizeOpponent ==
    /\ opp_pc = "call"
    /\ opp_abbrev' = normalize_opponent_abbrev(opp_string)
    /\ opp_pc' = "done"
    /\ UNCHANGED opp_string

(***************************************************************************)
(* starting_rbs_gamelog.fetch_player_gamelog: one row of the game-log table*)
(***************************************************************************)
\* A numeric field of a record: << >> when it holds None, << n >> when it holds n
Absent == << >>
Some(n) == << n >>

\* `int(t) if t else None`, `float(t) if t else None`,
\* `int(t) if t and t.isdigit() else None`: does the expression raise ValueError
Raises(kind, t) ==
    CASE kind = "int" -> t # << >> /\ ~IntOk(t)
      [] kind = "float" -> t # << >> /\ ~FloatOk(t)
      [] kind = "lng" -> FALSE
\* Coerce with an empty cell read as 0
Coerce_zero(kind, t) ==
    CASE kind = "int" -> IF t = << >> THEN Some(0) ELSE Some(IntValue(t))
      [] kind = "float" -> IF t = << >> THEN Absent ELSE Some(FloatValue(t))
      [] kind = "lng" -> IF t # << >> /\ IsDigitStr(t) THEN Some(IntValue(t)) ELSE Absent

\* ... and its value when it does not
Coerce(kind, t) ==
    CASE kind = "int" -> IF t = << >> THEN Absent ELSE Some(IntValue(t))
      [] kind = "float" -> IF t = << >> THEN Absent ELSE Some(FloatValue(t))
      [] kind = "lng" -> IF t # << >> /\ IsDigitStr(t) THEN Some(IntValue(t)) ELSE Absent

\* The assignments of the two try blocks, in order: key, cell (counted from 1), coercion
RushingFields ==
    << << "rushing_attempts", 4, "int" >>,
       << "rushing_yards", 5, "int" >>,
       << "rushing_avg", 6, "float" >>,
       << "rushing_td", 7, "int" >>,
       << "rushing_lng", 8, "lng" >> >>
ReceivingFields ==
    << << "receiving_receptions", 9, "int" >>,
       << "receiving_targets", 10, "int" >>,
       << "receiving_yards", 11, "int" >> >>

EmptyDict == [k \in {} |-> Absent]
\* A try block: the assignments run in order and the first ValueError ends the block
RECURSIVE TryAssign(_, _, _)
TryAssign(fields, cell_texts, k) ==
    IF k > Len(fields) THEN EmptyDict
    ELSE LET t == cell_texts[fields[k][2]]
         IN  IF Raises(fields[k][3], t) THEN EmptyDict
             ELSE (fields[k][1] :> Coerce(fields[k][3], t))
                  @@ TryAssign(fields, cell_texts, k + 1)

\* Fewest cells of a game row
MinCells == 8
\* The receiving block runs on rows with more cells than this
RecvGate == 13

\* game_data of a row with at least MinCells cells
GameData(player_id, player_name, team, cell_texts) ==
    [ player_id |-> player_id, player_name |-> player_name, team |-> team,
      date |-> cell_texts[1], opponent |-> cell_texts[2], result |-> cell_texts[3] ]
    @@ (IF Len(cell_texts) > 6 THEN TryAssign(RushingFields, cell_texts, 1) ELSE EmptyDict)
    @@ (IF Len(cell_texts) > RecvGate THEN TryAssign(ReceivingFields, cell_texts, 1)
        ELSE EmptyDict)

\* The body of `for row in rows[2:]`: games after the row
ParseRow(gs, player_id, player_name, team, cell_texts) ==
    IF Len(cell_texts) < MinCells THEN gs
    ELSE Append(gs, GameData(player_id, player_name, team, cell_texts))

\* dict.get: the value of a key, None for a key never assigned
Field(game_data, key) == IF key \in DOMAIN game_data THEN game_data[key] ELSE Absent

\* Cell texts of the game-log table
T_date == << "1", "0", "/", "0", "1" >>
T_atKC == << "@", "K", "C" >>
T_result == << "W", " ", "2", "0", "-", "1", "7" >>
T_dash == << "-" >>
T_15 == << "1", "5" >>
T_80 == << "8", "0" >>
T_avg == << "5", ".", "3" >>
T_1 == << "1" >>
T_22 == << "2", "2" >>
T_22t == << "2", "2", "t" >>
T_3 == << "3" >>
T_4 == << "4" >>
T_25 == << "2", "5" >>

\* Rows of the table: a subtotal row of 5 cells, rows of 8 cells, rows of 14 cells
ShortRow == << T_date, T_atKC, T_result, T_15, T_80 >>
Rows8 ==
    { << T_date, T_atKC, T_result, car, yds, avg, td, lng >> :
        car \in { T_15, << >>, T_dash }, yds \in { T_80, << >>, T_dash },
        avg \in { T_avg, T_dash }, td \in { T_1, T_dash }, lng \in { T_22, T_22t } }
Rows14 ==
    { << T_date, T_atKC, T_result, car, T_80, T_avg, T_1, T_22, rec, T_4, ryds,
         T_avg, T_1, T_22 >> :
        car \in { T_15, T_dash }, rec \in { T_3, << >>, T_dash }, ryds \in { T_25, << >> } }
RowInputs == { ShortRow } \cup Rows8 \cup Rows14

\* Most data rows of one game-log table
MaxRows == 2

RowInit ==
    /\ cells = << >>
    /\ games = << >>
    /\ row_i = 0

\* One iteration of the row loop of fetch_player_gamelog
ProcessRow ==
    /\ row_i < MaxRows
    /\ \E c \in RowInputs :
        /\ cells' = c
        /\ games' = ParseRow(games, "3116", "A", << "n", "y", "g" >>, c)
    /\ row_i' = row_i + 1

(***************************************************************************)
(* RB_gamelog.fetch_team_roster                                            *)
(***************************************************************************)
T_RB == << "R", "B" >>
\* re.search(r'\bRB\b', text, flags=re.IGNORECASE)
WholeWordRB(text) ==
    \E i \in 1..(Len(text) - 1) :
        /\ StrUpper(SubSeq(text, i, i + 1)) = T_RB
        /\ (i = 1 \/ ~IsWordChar(text[i - 1]))
        /\ (i + 1 = Len(text) \/ ~IsWordChar(text[i + 2]))

\* Longest first token kept as the fallback position
ShortToken == 3

\* ScanCells with a short token kept only while none is held
RECURSIVE ScanCells_first(_, _, _)
ScanCells_first(tds, k, position_text) ==
    IF k > Len(tds) THEN position_text
    ELSE LET text == StrStrip(tds[k])
             tok == FirstToken(text)
         IN  IF text = << >> THEN ScanCells_first(tds, k + 1, position_text)
             ELSE IF WholeWordRB(text) THEN text
             ELSE IF tok # << >> /\ Len(tok) <= ShortToken /\ position_text = << >>
                  THEN ScanCells_first(tds, k + 1, tok)
                  ELSE ScanCells_first(tds, k + 1, position_text)

\* The loop over the cells of the parent row: position_text after cell k and the rest
RECURSIVE ScanCells(_, _, _)
ScanCells(tds, k, position_text) ==
    IF k > Len(tds) THEN position_text
    ELSE LET text == StrStrip(tds[k])
             tok == FirstToken(text)
         IN  IF text = << >> THEN ScanCells(tds, k + 1, position_text)
             ELSE IF WholeWordRB(text) THEN text
             ELSE IF tok # << >> /\ Len(tok) <= ShortToken
                  THEN ScanCells(tds, k + 1, tok)
                  ELSE ScanCells(tds, k + 1, position_text)

\* position_text of a link: from the cells of its parent row, else from its next sibling
PositionText(a) ==
    IF a.parent_tr THEN ScanCells(a.tds, 1, << >>)
    ELSE IF a.sib # None THEN StrStrip(a.sib)
    ELSE << >>

\* `'RB' in pos_norm`
IsRB(a) == Contains(StrUpper(PositionText(a)), T_RB)

\* RosterBody with the id never recorded as seen
RosterBody_unseen(st, team_abbrev, a) ==
    IF ~a.href_match THEN st
    ELSE IF a.text = << >> THEN st
    ELSE IF a.href_id \in st.seen_ids THEN st
    ELSE IF IsRB(a)
         THEN [ results |-> Append(st.results,
                    [ team |-> team_abbrev, player_name |-> a.text, player_id |-> a.href_id ]),
                seen_ids |-> st.seen_ids ]
         ELSE st

\* The body of the loop over the links: (results, seen_ids) after link a.
\* find_all visits only the links whose href holds /player/_/id/<digits>.
RosterBody(st, team_abbrev, a) ==
    IF ~a.href_match THEN st
    ELSE IF a.text = << >> THEN st
    ELSE IF a.href_id \in st.seen_ids THEN st
    ELSE IF IsRB(a)
         THEN [ results |-> Append(st.results,
                    [ team |-> team_abbrev, player_name |-> a.text, player_id |-> a.href_id ]),
                seen_ids |-> st.seen_ids \cup { a.href_id } ]
         ELSE st

RECURSIVE RosterLoop(_, _, _, _)
RosterLoop(st, team_abbrev, links, k) ==
    IF k > Len(links) THEN st
    ELSE RosterLoop(RosterBody(st, team_abbrev, links[k]), team_abbrev, links, k + 1)
\* What fetch_team_roster returns for a page holding `links`
fetch_team_roster(team_abbrev, links) ==
    RosterLoop([ results |-> << >>, seen_ids |-> {} ], team_abbrev, links, 1).results

\* Link texts and the cells beside them
N_Saquon == << "S", "a", "q", "u", "o", "n" >>
N_Miles == << "M", "i", "l", "e", "s" >>
T_WR == << "W", "R" >>
T_RB1 == << "R", "B", "1" >>
T_age == << "2", "8" >>
T_rbSlash == << "r", "b", "/", "W", "R" >>

\* A link in a table row whose other cells are `others`
RowLink(id, name, others) ==
    [ href_match |-> TRUE, href_id |-> id, text |-> name, parent_tr |-> TRUE,
      tds |-> << name >> \o others, sib |-> None ]
\* A link outside any table row, followed by a sibling element
LooseLink(id, name, sibling) ==
    [ href_match |-> TRUE, href_id |-> id, text |-> name, parent_tr |-> FALSE,
      tds |-> << >>, sib |-> sibling ]
\* A link to something other than a player profile
OtherLink ==
    [ href_match |-> FALSE, href_id |-> "", text |-> N_Miles, parent_tr |-> FALSE,
      tds |-> << >>, sib |-> None ]

RowContexts ==
    { << T_RB, T_age >>, << T_WR, T_age >>, << T_RB1, T_WR >>, << T_WR, T_RB1 >>,
      << T_rbSlash >> }
LinkPool ==
    { RowLink(who[1], who[2], others) :
        who \in { << "1", N_Saquon >>, << "1", N_Miles >>, << "2", N_Miles >> },
        others \in RowContexts }
    \cup { LooseLink("1", N_Saquon, sibling) : sibling \in { T_RB, None } }
    \cup { RowLink("1", << >>, << T_RB, T_age >>), OtherLink }

\* Most links of one roster page
MaxLinks == 3

RosterInit ==
    /\ page = << >>
    /\ results = << >>
    /\ seen_ids = {}

\* One iteration of the link loop of fetch_team_roster
RosterLink ==
    /\ Len(page) < MaxLinks
    /\ \E a \in LinkPool :
        LET st == RosterBody([ results |-> results, seen_ids |-> seen_ids ],
                             << "n", "y", "g" >>, a)
        IN  /\ page' = Append(page, a)
            /\ results' = st.results
            /\ seen_ids' = st.seen_ids

(***************************************************************************)
(* RB_gamelog.scrape_all_teams                                             *)
(***************************************************************************)
\* What the site serves for a roster URL: an error status, a page that cannot be
\* parsed, or a page with its links
HttpError == [ status |-> "RequestException", links |-> << >> ]
BadPage == [ status |-> "Exception", links |-> << >> ]
Page(links) == [ status |-> "ok", links |-> links ]

PageOne == Page(<< RowLink("1", N_Saquon, << T_RB, T_age >>) >>)
PageTwo ==
    Page(<< RowLink("1", N_Saquon, << T_RB, T_age >>),
            RowLink("2", N_Miles, << T_WR, T_age >>),
            RowLink("1", N_Miles, << T_RB, T_age >>),
            RowLink("2", N_Miles, << T_RB, T_age >>) >>)
Served == { HttpError, BadPage, PageOne, PageTwo }

\* What the site serves for a team: web for the teams of the pool, PageOne for the rest
ServedFor(team) == IF team \in DOMAIN web THEN web[team] ELSE PageOne

\* `team_abbrevs or TEAM_ABBREVS`: None and the empty list both give the full list
TeamsToScrape(arg) == IF arg = << >> THEN TEAM_ABBREVS ELSE arg

\* TeamBody with the accumulator emptied by a failure
TeamBody_reset(rows, team, served) ==
    IF served.status = "ok" THEN rows \o fetch_team_roster(team, served.links)
    ELSE << >>

\* The body of `for team in team_abbrevs`: all_rows after the team.
\* fetch_team_roster raises on an error status (raise_for_status) and on a page it
\* cannot parse; both except clauses log and fall through to the sleep.
TeamBody(rows, team, served) ==
    IF served.status = "ok" THEN rows \o fetch_team_roster(team, served.links)
    ELSE rows

\* Teams a restricted list is drawn from, and its greatest length
TeamPool == { << "n", "y", "g" >>, << "c", "i", "n" >> }
MaxTeams == 2
ListsUpTo(S, n) == UNION { [1..k -> S] : k \in 0..n }

TeamInit ==
    /\ team_abbrevs \in ListsUpTo(TeamPool, MaxTeams)
    /\ web \in [TeamPool -> Served]
    /\ team_i = 0
    /\ team_log = << >>
    /\ all_rows = << >>
\* A run of scrape_all_teams that is over: one team asked for, its page not served
TeamIdle ==
    /\ team_abbrevs = << << "n", "y", "g" >> >>
    /\ web = [t \in TeamPool |-> HttpError]
    /\ team_i = 1
    /\ team_log = << << "n", "y", "g" >> >>
    /\ all_rows = << >>

\* One iteration of the team loop of scrape_all_teams
TeamIter ==
    /\ team_i < Len(TeamsToScrape(team_abbrevs))
    /\ LET team == TeamsToScrape(team_abbrevs)[team_i + 1]
       IN  /\ team_log' = Append(team_log, team)
           /\ all_rows' = TeamBody(all_rows, team, ServedFor(team))
    /\ team_i' = team_i + 1
    /\ UNCHANGED << team_abbrevs, web >>

(***************************************************************************)
(* starting_rbs_gamelog.scrape_all_starting_rb_gamelogs                    *)
(***************************************************************************)
\* What the site serves for a gamelog URL: an error status, a page with no table,
\* a page whose table cannot be read, or the rows of its first table
LogHttpError == [ status |-> "RequestException", rows |-> << >> ]
LogNoTables == [ status |-> "no tables", rows |-> << >> ]
LogBadPage == [ status |-> "Exception", rows |-> << >> ]
LogPage(rows) == [ status |-> "ok", rows |-> rows ]

RECURSIVE RowLoop(_, _, _, _, _, _)
RowLoop(gs, player_id, player_name, team, rows, k) ==
    IF k > Len(rows) THEN gs
    ELSE RowLoop(ParseRow(gs, player_id, player_name, team, rows[k]),
                 player_id, player_name, team, rows, k + 1)
\* What fetch_player_gamelog returns: [] on a request error, on a page without
\* tables and on any exception while the page is read, else the games of the rows
fetch_player_gamelog(player_id, player_name, team, served) ==
    IF served.status = "ok"
    THEN RowLoop(<< >>, player_id, player_name, team, served.rows, 1)
    ELSE << >>

BaseRow == << T_date, T_atKC, T_result, T_15, T_80, T_avg, T_1, T_22 >>
DashRow == << T_date, T_atKC, T_result, T_dash, T_80, T_avg, T_1, T_22 >>
LogServed ==
    { LogHttpError, LogNoTables, LogBadPage, LogPage(<< BaseRow >>),
      LogPage(<< ShortRow, DashRow, BaseRow >>) }

\* Rows of data/starting_rbs.csv, and the most of them
StarterPool ==
    { [ player_id |-> "3116", player_name |-> "A", team |-> << "n", "y", "g" >> ],
      [ player_id |-> "4242", player_name |-> "B", team |-> << "c", "i", "n" >> ] }
MaxPlayers == 2

PlayerInit ==
    /\ starters \in ListsUpTo(StarterPool, MaxPlayers)
    /\ logs \in [{ p.player_id : p \in StarterPool } -> LogServed]
    /\ player_i = 0
    /\ player_log = << >>
    /\ all_games = << >>
\* A run of scrape_all_starting_rb_gamelogs on an empty data/starting_rbs.csv
PlayerIdle ==
    /\ starters = << >>
    /\ logs = [id \in { p.player_id : p \in StarterPool } |-> LogHttpError]
    /\ player_i = 0
    /\ player_log = << >>
    /\ all_games = << >>

\* The body of `for idx, row in df.iterrows()`: all_games after the player
PlayerBody(gs, row, served) ==
    gs \o fetch_player_gamelog(row.player_id, row.player_name, row.team, served)

\* One iteration of the player loop of scrape_all_starting_rb_gamelogs
PlayerIter ==
    /\ player_i < Len(starters)
    /\ LET row == starters[player_i + 1]
       IN  /\ player_log' = Append(player_log, row.player_id)
           /\ all_games' = PlayerBody(all_games, row, logs[row.player_id])
    /\ player_i' = player_i + 1
    /\ UNCHANGED << starters, logs >>

(***************************************************************************)
(* compare_rb_vs_defenses.load_defense_rankings                            *)
(***************************************************************************)
\* Teams in each tier
TierSize == 16
\* Teams in the league
LeagueSize == 32

\* pd.read_csv on one cell of the yards column: the texts it reads as missing
T_NA == << "N", "/", "A" >>
IsNAText(t) == t = << >> \/ t = T_NA
\* ... and the texts it reads as a number
IsNumberText(t) == IntOk(t) \/ FloatOk(t)
\* pd.read_csv gives the column dtype object (its cells stay text) only when some
\* cell is neither missing nor a number; otherwise the column is int64 or float64
ColumnIsObject(texts) ==
    \E i \in DOMAIN texts : ~IsNAText(texts[i]) /\ ~IsNumberText(texts[i])
\* A cell of the object column: NaN where the text is missing
ReadCell(t) == IF IsNAText(t) THEN NaN ELSE t

\* .str.replace(',', '') on one cell: NaN stays NaN
StripCommas(c) == IF c = NaN THEN NaN ELSE StrRemoveAll(c, << "," >>)
\* .astype(int) raises ValueError on this cell
AsIntRaises(c) == c = NaN \/ ~IntOk(StrStrip(c))

\* sort_values('Rushing Yards (Yds)'): the row order of the stable ascending sort
StableOrder(vals) ==
    LET n == Len(vals)
        pos == [i \in 1..n |->
                  1 + Cardinality({ j \in 1..n :
                        vals[j] < vals[i] \/ (vals[j] = vals[i] /\ j < i) })]
    IN  [p \in 1..n |-> CHOOSE i \in 1..n : pos[i] = p]
SwapAt(order, p) ==
    [q \in DOMAIN order |->
        IF q = p THEN order[p + 1] ELSE IF q = p + 1 THEN order[p] ELSE order[q]]
\* sort_values uses kind='quicksort', which is not stable: rows with equal values
\* may come out in either order (exact for inputs with at most one pair of equal values)
SortOrders(vals) ==
    LET st == StableOrder(vals)
    IN  { st } \cup { SwapAt(st, p) : p \in { q \in 1..(Len(vals) - 1) :
                                                 vals[st[q]] = vals[st[q + 1]] } }

\* df.head(n), df.tail(n) on a list
HeadN(xs, n) == SubSeq(xs, 1, IF Len(xs) < n THEN Len(xs) ELSE n)
LastN(xs, n) == SubSeq(xs, IF Len(xs) < n THEN 1 ELSE Len(xs) - n + 1, Len(xs))

\* The outcomes of load_defense_rankings on the rows (Team, Rushing Yards text) of
\* defense_stats.csv: the exception raised, or the two lists returned
load_defense_rankings(csv) ==
    LET texts == [i \in DOMAIN csv |-> csv[i][2]]
        stripped == [i \in DOMAIN csv |-> StripCommas(ReadCell(texts[i]))]
    IN  IF ~ColumnIsObject(texts)
        THEN { [ pc |-> "AttributeError", top |-> << >>, bottom |-> << >> ] }
        ELSE IF \E i \in DOMAIN csv : AsIntRaises(stripped[i])
        THEN { [ pc |-> "ValueError", top |-> << >>, bottom |-> << >> ] }
        ELSE LET vals == [i \in DOMAIN csv |-> IntValue(StrStrip(stripped[i]))]
             IN  { LET team_abbrev ==
                          [p \in DOMAIN csv |-> MapDict(TEAM_NAME_TO_ABBREV, csv[order[p]][1])]
                   IN  [ pc |-> "done", top |-> HeadN(team_abbrev, TierSize),
                         bottom |-> LastN(team_abbrev, TierSize) ] :
                   order \in SortOrders(vals) }

\* The text ESPN shows for a number: a comma before the last three digits
RECURSIVE NatText(_)
NatText(n) == IF n < 10 THEN << Digits[n + 1] >> ELSE NatText(n \div 10) \o << Digits[(n % 10) + 1] >>
YardsText(n) ==
    IF n < 1000 THEN NatText(n)
    ELSE NatText(n \div 1000) \o << "," >> \o SubSeq(NatText(1000 + (n % 1000)), 2, 4)

\* The rows of defense_stats.csv drawn: the 32 teams in table order; yards
\* first + 10 * k for the k-th smallest, laid out by a rotation and a reversal
\* of the rows; optionally one team under a name the table does not hold, two
\* values equal, one value missing
NumTeams == Len(TEAM_NAME_TO_ABBREV)
DefenseRows(first, rot, rev, unknown, tie, missing) ==
    [j \in 1..NumTeams |->
        LET k0 == (j - 1 + rot) % NumTeams
            k == IF rev THEN NumTeams - 1 - k0 ELSE k0
            kk == IF tie > 0 /\ k = tie THEN k - 1 ELSE k
        IN  << IF j = unknown THEN "Washington Football Team" ELSE TEAM_NAME_TO_ABBREV[j][1],
               IF j = missing THEN T_NA ELSE YardsText(first + 10 * kk) >>]
DefenseInputs ==
    { DefenseRows(first, rot, rev, unknown, tie, missing) :
        first \in { 80, 850 }, rot \in 0..(NumTeams - 1), rev \in BOOLEAN,
        unknown \in { 0, 6 }, tie \in { 0, 16 }, missing \in { 0, 9 } }

RankInit ==
    /\ csv_def \in DefenseInputs
    /\ rank_pc = "call"
    /\ top16_defenses = << >>
    /\ bottom16_defenses = << >>
RankIdle ==
    /\ csv_def = << >>
    /\ rank_pc = "call"
    /\ top16_defenses = << >>
    /\ bottom16_defenses = << >>

\* The call of load_defense_rankings
Rank ==
    /\ rank_pc = "call"
    /\ \E out \in load_defense_rankings(csv_def) :
        /\ rank_pc' = out.pc
        /\ top16_defenses' = out.top
        /\ bottom16_defenses' = out.bottom
    /\ UNCHANGED csv_def

(***************************************************************************)
(* compare_rb_vs_defenses.analyze_rb_vs_defenses                           *)
(***************************************************************************)
\* A row of the frame read from starting_rbs_gamelog.csv: a key never assigned and
\* a None are both NaN (Absent for a number); an empty text is NaN.  The frame
\* holds every column of a game record, as the log of a season does.
FrameText(t) == IF t = << >> THEN NaN ELSE t
FrameRow(g) ==
    [ player_name |-> g.player_name, team |-> g.team,
      opponent |-> FrameText(g.opponent),
      rushing_attempts |-> Field(g, "rushing_attempts"),
      rushing_yards |-> Field(g, "rushing_yards"),
      rushing_td |-> Field(g, "rushing_td"),
      receiving_yards |-> Field(g, "receiving_yards"),
      receiving_receptions |-> Field(g, "receiving_receptions") ]

\* df[mask]: the rows of xs at the indices in keep, in order
RECURSIVE SelectRows(_, _)
SelectRows(xs, keep) ==
    IF xs = << >> THEN << >>
    ELSE LET n == Len(xs)
             init == SelectRows(SubSeq(xs, 1, n - 1), keep)
         IN  IF n \in keep THEN Append(init, xs[n]) ELSE init

\* Series.unique(): the values in order of first appearance
RECURSIVE Unique(_)
Unique(xs) ==
    IF xs = << >> THEN << >>
    ELSE LET init == Unique(SubSeq(xs, 1, Len(xs) - 1))
             x == xs[Len(xs)]
         IN  IF x \in Range(init) THEN init ELSE Append(init, x)

\* Series.sum(): NaN cells are skipped, and a column of NaN sums to 0
RECURSIVE ColumnSum(_, _)
ColumnSum(rows, key) ==
    IF rows = << >> THEN 0
    ELSE (IF rows[1][key] = Absent THEN 0 ELSE rows[1][key][1]) + ColumnSum(Tail(rows), key)

\* round(y / a, 2) in hundredths, for a > 0 and y >= 0: the nearest hundredth, an
\* exact half going to the even one
Round2(y, a) ==
    LET q == (100 * y) \div a
        r == (100 * y) % a
    IN  IF 2 * r > a \/ (2 * r = a /\ q % 2 = 1) THEN q + 1 ELSE q

\* player_games after lines 126-132: the player's rows whose opponent is parsed,
\* each with its opponent_abbrev
PlayerGames(df, player_name) ==
    LET mine == SelectRows(df, { i \in DOMAIN df : df[i].player_name = player_name })
        withAbbrev == [i \in DOMAIN mine |->
            [ row |-> mine[i], opponent_abbrev |-> normalize_opponent_abbrev(mine[i].opponent) ]]
    IN  SelectRows(withAbbrev, { i \in DOMAIN mine : withAbbrev[i].opponent_abbrev # None })

\* The stats dict built for one tier (keys without their _vs_top16 / _vs_bottom16
\* suffix); rushing_avg is a key only when the summed attempts are positive
TierStats(player_name, team_abbrev, tier_games) ==
    LET rs == [i \in DOMAIN tier_games |-> tier_games[i].row]
        yards == ColumnSum(rs, "rushing_yards")
        attempts == ColumnSum(rs, "rushing_attempts")
        stats == [ player_name |-> player_name, team |-> team_abbrev,
                   games |-> Len(rs),
                   rushing_yards |-> yards,
                   rushing_attempts |-> attempts,
                   rushing_td |-> ColumnSum(rs, "rushing_td"),
                   receiving_yards |-> ColumnSum(rs, "receiving_yards"),
                   receiving_receptions |-> ColumnSum(rs, "receiving_receptions") ]
    IN  IF attempts > 0 THEN stats @@ ("rushing_avg" :> Round2(yards, attempts)) ELSE stats

\* PlayerTier with an entry for a player without a game against the tier
PlayerTier_always(df, player_name, defenses) ==
    LET player_games == PlayerGames(df, player_name)
        tier_games == SelectRows(player_games,
            { i \in DOMAIN player_games : player_games[i].opponent_abbrev \in Range(defenses) })
        team_abbrev == IF Len(player_games) > 0 THEN player_games[1].row.team ELSE None
    IN  << TierStats(player_name, team_abbrev, tier_games) >>

\* What one pass of the player loop appends to the result list of a tier
PlayerTier(df, player_name, defenses) ==
    LET player_games == PlayerGames(df, player_name)
        tier_games == SelectRows(player_games,
            { i \in DOMAIN player_games : player_games[i].opponent_abbrev \in Range(defenses) })
        team_abbrev == IF Len(player_games) > 0 THEN player_games[1].row.team ELSE None
    IN  IF Len(tier_games) > 0
        THEN << TierStats(player_name, team_abbrev, tier_games) >>
        ELSE << >>

RECURSIVE TierResults(_, _, _)
TierResults(df, names, defenses) ==
    IF names = << >> THEN << >>
    ELSE PlayerTier(df, names[1], defenses) \o TierResults(df, Tail(names), defenses)

\* (results_top, results_bottom) of analyze_rb_vs_defenses
analyze_rb_vs_defenses(df, top16, bottom16) ==
    LET names == Unique([i \in DOMAIN df |-> df[i].player_name])
    IN  << TierResults(df, names, top16), TierResults(df, names, bottom16) >>

\* The game-log rows drawn: player and team, opponent cell, carries and yards cells
T_vsNYG == << "v", "s", "N", "Y", "G" >>
T_Kansas == << "K", "a", "n", "s", "a", "s" >>
LogRow(who, opp, car, yds) ==
    [ player_id |-> who[1], player_name |-> who[2], team |-> who[3],
      cells |-> << T_date, opp, T_result, car, yds, T_avg, T_1, T_22, T_3, T_4, T_25,
                   T_avg, T_1, T_22 >> ]
LogRowInputs ==
    { LogRow(who, opp, stat[1], stat[2]) :
        who \in { << "3116", "A", << "n", "y", "g" >> >>,
                  << "3116", "A", << "c", "i", "n" >> >>,
                  << "4242", "B", << "c", "i", "n" >> >> },
        opp \in { T_atKC, T_vsNYG, T_Kansas },
        stat \in { << T_15, T_80 >>, << T_15, << >> >>, << << >>, T_80 >> } }
\* Most games in starting_rbs_gamelog.csv
MaxGames == 2

\* The tier lists drawn: those of a full table, and those of a table that names one
\* team in a way TEAM_NAME_TO_ABBREV does not hold
TierInputs ==
    UNION { { << out.top, out.bottom >> : out \in load_defense_rankings(csv) } :
            csv \in { DefenseRows(850, 0, FALSE, 0, 0, 0), DefenseRows(850, 16, FALSE, 6, 0, 0) } }

AggInit ==
    /\ log_rows \in ListsUpTo(LogRowInputs, MaxGames)
    /\ tiers \in TierInputs
    /\ df_games = << >>
    /\ results_top = << >>
    /\ results_bottom = << >>
    /\ agg_pc = "load"
AggIdle ==
    /\ log_rows = << >>
    /\ tiers = << << >>, << >> >>
    /\ df_games = << >>
    /\ results_top = << >>
    /\ results_bottom = << >>
    /\ agg_pc = "load"

\* The game records of the rows, saved by starting_rbs_gamelog and read back by
\* load_rb_gamelogs
LoadGamelogs ==
    /\ agg_pc = "load"
    /\ df_games' = [i \in DOMAIN log_rows |->
          FrameRow(ParseRow(<< >>, log_rows[i].player_id, log_rows[i].player_name,
                            log_rows[i].team, log_rows[i].cells)[1])]
    /\ agg_pc' = "analyze"
    /\ UNCHANGED << log_rows, tiers, results_top, results_bottom >>

\* Analyze with the loop working on the selected rows in place of their .copy():
\* the opponent column of df_games is overwritten by the abbreviations
Analyze_inplace ==
    /\ agg_pc = "analyze"
    /\ LET out == analyze_rb_vs_defenses(df_games, tiers[1], tiers[2])
       IN  /\ results_top' = out[1]
           /\ results_bottom' = out[2]
    /\ df_games' = [i \in DOMAIN df_games |->
          [df_games[i] EXCEPT !.opponent = normalize_opponent_abbrev(df_games[i].opponent)]]
    /\ agg_pc' = "done"
    /\ UNCHANGED << log_rows, tiers >>

\* The call of analyze_rb_vs_defenses: the loop reads df_games and the two lists
\* and writes only player_games, a .copy() of the rows it selects
Analyze ==
    /\ agg_pc = "analyze"
    /\ LET out == analyze_rb_vs_defenses(df_games, tiers[1], tiers[2])
       IN  /\ results_top' = out[1]
           /\ results_bottom' = out[2]
    /\ agg_pc' = "done"
    /\ UNCHANGED << log_rows, tiers, df_games >>

\* A second call of analyze_rb_vs_defenses on the same frame and lists
Reanalyze ==
    /\ agg_pc = "done"
    /\ LET out == analyze_rb_vs_defenses(df_games, tiers[1], tiers[2])
       IN  /\ results_top' = out[1]
           /\ results_bottom' = out[2]
    /\ agg_pc' = "again"
    /\ UNCHANGED << log_rows, tiers, df_games >>

(***************************************************************************)
(* compare_rb_vs_defenses.main                                             *)
(***************************************************************************)
\* An output file: not written, or written with its rows
Unwritten == [ written |-> FALSE, rows |-> << >> ]
Written(rows) == [ written |-> TRUE, rows |-> rows ]

\* sort_values(..., ascending=False), kind='quicksort': the row orders that are
\* descending, rows with equal values in any order
DescOrders(vals) ==
    { p \in [DOMAIN vals -> DOMAIN vals] :
        /\ \A i, j \in DOMAIN vals : i # j => p[i] # p[j]
        /\ \A i, j \in DOMAIN vals : i < j => vals[p[i]] >= vals[p[j]] }
\* `if len(df) > 0: df.sort_values(...).to_csv(...)`: what the file may hold after it
SaveOutcomes(tier_results) ==
    IF Len(tier_results) > 0
    THEN { Written([k \in DOMAIN tier_results |-> tier_results[p[k]]]) :
             p \in DescOrders([k \in DOMAIN tier_results |-> tier_results[k].rushing_yards]) }
    ELSE { Unwritten }

\* defense_stats.csv with the yards cell of row j replaced
BadCell(csv, j, text) == [csv EXCEPT ![j] = << csv[j][1], text >>]
\* The tables main is run on: full tables, tables with a missing value, and
\* tables with a cell that is no integer
MainDefenseInputs ==
    { DefenseRows(first, rot, FALSE, 0, 0, missing) :
        first \in { 80, 850 }, rot \in { 0, 16 }, missing \in { 0, 9 } }
    \cup { BadCell(DefenseRows(first, 0, FALSE, 0, 0, 0), 3, text) :
             first \in { 80, 850 }, text \in { T_dash, T_avg } }
\* ... and the game rows behind the game-log file, which holds at least one
MainLogRows ==
    { LogRow(<< "3116", "A", << "n", "y", "g" >> >>, T_atKC, T_15, T_80),
      LogRow(<< "3116", "A", << "n", "y", "g" >> >>, T_vsNYG, T_15, << >>),
      LogRow(<< "4242", "B", << "c", "i", "n" >> >>, T_atKC, << >>, T_80),
      LogRow(<< "4242", "B", << "c", "i", "n" >> >>, T_Kansas, T_15, T_80) }

MainInit ==
    /\ main_pc = "rank"
    /\ out_top = Unwritten
    /\ out_bottom = Unwritten
    /\ csv_def \in MainDefenseInputs
    /\ rank_pc = "call"
    /\ top16_defenses = << >>
    /\ bottom16_defenses = << >>
    /\ log_rows \in ListsUpTo(MainLogRows, MaxGames) \ { << >> }
    /\ tiers = << << >>, << >> >>
    /\ df_games = << >>
    /\ results_top = << >>
    /\ results_bottom = << >>
    /\ agg_pc = "load"
\* main not run
MainIdle ==
    /\ main_pc = "rank"
    /\ out_top = Unwritten
    /\ out_bottom = Unwritten

\* MainRank with the exception of the ranking caught and the run going on
MainRank_swallow ==
    /\ main_pc = "rank"
    /\ Rank
    /\ main_pc' = "load"
    /\ tiers' = << top16_defenses', bottom16_defenses' >>
    /\ UNCHANGED << log_rows, df_games, results_top, results_bottom, agg_pc, out_top, out_bottom >>

\* `top16_defenses, bottom16_defenses = load_defense_rankings()`: main has no
\* try block, so an exception of the call ends the run here
MainRank ==
    /\ main_pc = "rank"
    /\ Rank
    /\ IF rank_pc' = "done"
       THEN /\ main_pc' = "load"
            /\ tiers' = << top16_defenses', bottom16_defenses' >>
       ELSE /\ main_pc' = "raised"
            /\ UNCHANGED tiers
    /\ UNCHANGED << log_rows, df_games, results_top, results_bottom, agg_pc, out_top, out_bottom >>

\* `df_games = load_rb_gamelogs()`
MainLoad ==
    /\ main_pc = "load"
    /\ LoadGamelogs
    /\ main_pc' = "analyze"
    /\ UNCHANGED << rankVars, out_top, out_bottom >>

\* `df_top, df_bottom = analyze_rb_vs_defenses(...)`
MainAnalyze ==
    /\ main_pc = "analyze"
    /\ Analyze
    /\ main_pc' = "save"
    /\ UNCHANGED << rankVars, out_top, out_bottom >>

\* The two `if len(df) > 0` blocks that sort and save
MainSave ==
    /\ main_pc = "save"
    /\ out_top' \in SaveOutcomes(results_top)
    /\ out_bottom' \in SaveOutcomes(results_bottom)
    /\ main_pc' = "done"
    /\ UNCHANGED << rankVars, aggVars >>

(***************************************************************************)
(* starting_rbs: the depth-chart extractor and its team batch loop         *)
(***************************************************************************)
\* An Optional result: << >> for None, << x >> for x
NotFound == << >>
Found(x) == << x >>

\* extract_player_from_link: None for no tag, for an href without a player id and
\* for a link without text
extract_player_from_link(a_tag) ==
    IF a_tag = NotFound THEN NotFound
    ELSE IF ~a_tag[1].href_match THEN NotFound
    ELSE IF a_tag[1].text = << >> THEN NotFound
    ELSE Found([ player_name |-> a_tag[1].text, player_id |-> a_tag[1].href_id ])

\* `for i, row in enumerate(pos_rows): if 'RB' in text: ... break`, from row k on:
\* the index (counted from 1) of the first row that holds RB, 0 for none
RECURSIVE FindRBRow(_, _)
FindRBRow(pos_rows, k) ==
    IF k > Len(pos_rows) THEN 0
    ELSE IF Contains(StrStrip(pos_rows[k].text), T_RB) THEN k
    ELSE FindRBRow(pos_rows, k + 1)

\* FindLink taking the first link of the row whose href holds a player id and
\* which has text
RECURSIVE FindLink_named(_, _)
FindLink_named(links, k) ==
    IF k > Len(links) THEN NotFound
    ELSE IF links[k].href_match /\ links[k].text # << >> THEN Found(links[k])
    ELSE FindLink_named(links, k + 1)

\* player_row.find('a', href=PLAYER_ID_RE), from link k on: the first link of the
\* row whose href holds a player id
RECURSIVE FindLink(_, _)
FindLink(links, k) ==
    IF k > Len(links) THEN NotFound
    ELSE IF links[k].href_match THEN Found(links[k])
    ELSE FindLink(links, k + 1)

\* find_all('tr')[1:]
SkipHeader(trs) == SubSeq(trs, 2, Len(trs))

\* extract_starting_rb_from_depth_table on a page: [div, tables], a table being
\* its rows, a row its text and its links
extract_starting_rb_from_depth_table(soup) ==
    IF ~soup.div THEN NotFound
    ELSE IF Len(soup.tables) < 2 THEN NotFound
    ELSE LET pos_rows == SkipHeader(soup.tables[1])
             player_rows == SkipHeader(soup.tables[2])
             rb_row_idx == FindRBRow(pos_rows, 1)
         IN  IF rb_row_idx = 0 THEN NotFound
             ELSE IF rb_row_idx > Len(player_rows) THEN NotFound
             ELSE extract_player_from_link(FindLink(player_rows[rb_row_idx].links, 1))

\* get_starting_rb_for_team: None on a request error and when no player is extracted
get_starting_rb_for_team(team_abbrev, served) ==
    IF served.status # "ok" THEN NotFound
    ELSE LET player == extract_starting_rb_from_depth_table(served.soup)
         IN  IF player = NotFound THEN NotFound
             ELSE Found([ team |-> team_abbrev, player_name |-> player[1].player_name,
                          player_id |-> player[1].player_id, depth_rank |-> "RB1" ])

\* Rows and links of depth-chart tables
T_QB == << "Q", "B" >>
T_hdr == << "P", "O", "S" >>
DLink(id, name) == [ href_match |-> TRUE, href_id |-> id, text |-> name ]
TeamLink == [ href_match |-> FALSE, href_id |-> "", text |-> N_Miles ]
PosRow(text) == [ text |-> text, links |-> << >> ]
PlayerRow(links) == [ text |-> << >>, links |-> links ]
PosTables ==
    { << PosRow(T_hdr), PosRow(T_QB), PosRow(T_RB), PosRow(T_WR) >>,
      << PosRow(T_hdr), PosRow(T_RB), PosRow(T_rbSlash), PosRow(T_RB) >>,
      << PosRow(T_hdr), PosRow(T_QB), PosRow(T_WR) >>,
      << PosRow(T_RB) >> }
PlayerTables ==
    { << PlayerRow(<< >>), PlayerRow(<< DLink("9", N_Miles) >>),
         PlayerRow(<< DLink("1", N_Saquon), DLink("2", N_Miles) >>), PlayerRow(<< >>) >>,
      << PlayerRow(<< >>), PlayerRow(<< TeamLink, DLink("2", N_Miles), DLink("1", N_Saquon) >>),
         PlayerRow(<< DLink("1", << >>), DLink("2", N_Miles) >>) >>,
      << PlayerRow(<< >>), PlayerRow(<< TeamLink >>) >>,
      << PlayerRow(<< >>), PlayerRow(<< DLink("1", N_Saquon) >>), PlayerRow(<< >>) >> }
\* What the site serves for a depth-chart URL: an error status, a page without the
\* depth-table div, a page with one table, or a page with both tables
DepthHttpError == [ status |-> "RequestException", soup |-> [ div |-> FALSE, tables |-> << >> ] ]
DepthPage(div, tables) == [ status |-> "ok", soup |-> [ div |-> div, tables |-> tables ] ]
DepthServed ==
    { DepthHttpError, DepthPage(FALSE, << >>) }
    \cup { DepthPage(TRUE, << pos >>) : pos \in { << PosRow(T_hdr), PosRow(T_RB) >> } }
    \cup { DepthPage(TRUE, << pos, players >>) : pos \in PosTables, players \in PlayerTables }
DepthDefault == DepthPage(TRUE, << << PosRow(T_hdr), PosRow(T_RB) >>,
                                   << PlayerRow(<< >>), PlayerRow(<< DLink("1", N_Saquon) >>) >> >>)
\* What the site serves for a team: depth_web for the teams of the pool
DepthServedFor(team) == IF team \in DOMAIN depth_web THEN depth_web[team] ELSE DepthDefault

\* `team_abbrevs or TEAM_ABBREVS` of scrape_all_starting_rbs
DepthTeamsToScrape(arg) == IF arg = << >> THEN TEAM_ABBREVS_starting_rbs ELSE arg

\* Teams the two pages are served for: one page is drawn for the first team of the
\* pool, the other teams are served the same page of a found starter
DepthInit ==
    /\ depth_abbrevs \in ListsUpTo(TeamPool, MaxTeams)
    /\ depth_web \in { [t \in TeamPool |-> IF t = << "n", "y", "g" >> THEN served ELSE DepthDefault] :
                          served \in DepthServed }
    /\ depth_i = 0
    /\ depth_rows = << >>
\* A run of scrape_all_starting_rbs that is over: one team asked for, its page not served
DepthIdle ==
    /\ depth_abbrevs = << << "n", "y", "g" >> >>
    /\ depth_web = [t \in TeamPool |-> DepthHttpError]
    /\ depth_i = 1
    /\ depth_rows = << >>

\* One iteration of the team loop of scrape_all_starting_rbs
DepthIter ==
    /\ depth_i < Len(DepthTeamsToScrape(depth_abbrevs))
    /\ LET team == DepthTeamsToScrape(depth_abbrevs)[depth_i + 1]
       IN  depth_rows' = depth_rows \o get_starting_rb_for_team(team, DepthServedFor(team))
    /\ depth_i' = depth_i + 1
    /\ UNCHANGED << depth_abbrevs, depth_web >>

(***************************************************************************)
(* Specifications                                                          *)
(***************************************************************************)
\* The opponent normaliser on one text
InitNorm ==
    NormInit /\ RosterInit /\ TeamIdle /\ PlayerIdle /\ RowInit /\ RankIdle /\ AggIdle /\ MainIdle /\ DepthIdle
NextNorm ==
    NormalizeOpponent
    /\ UNCHANGED << rosterVars, teamVars, playerVars, rowVars, rankVars, aggVars, mainVars, depthVars >>
SpecNorm == InitNorm /\ [][NextNorm]_vars

\* The link loop of one roster page
InitRoster ==
    NormIdle /\ RosterInit /\ TeamIdle /\ PlayerIdle /\ RowInit /\ RankIdle /\ AggIdle /\ MainIdle /\ DepthIdle
NextRoster ==
    RosterLink
    /\ UNCHANGED << normVars, teamVars, playerVars, rowVars, rankVars, aggVars, mainVars, depthVars >>
SpecRoster == InitRoster /\ [][NextRoster]_vars

\* The two batch loops, each run alone
InitBatch ==
    /\ NormIdle /\ RosterInit /\ RowInit /\ RankIdle /\ AggIdle /\ MainIdle /\ DepthIdle
    /\ \/ TeamInit /\ PlayerIdle
       \/ TeamIdle /\ PlayerInit /\ starters # << >>
NextBatch ==
    \/ TeamIter /\ UNCHANGED << normVars, rosterVars, playerVars, rowVars, rankVars, aggVars, mainVars, depthVars >>
    \/ PlayerIter /\ UNCHANGED << normVars, rosterVars, teamVars, rowVars, rankVars, aggVars, mainVars, depthVars >>
SpecBatch == InitBatch /\ [][NextBatch]_vars

\* The row loop of one game-log table
InitRows ==
    NormIdle /\ RosterInit /\ TeamIdle /\ PlayerIdle /\ RowInit /\ RankIdle /\ AggIdle /\ MainIdle /\ DepthIdle
NextRows ==
    ProcessRow
    /\ UNCHANGED << normVars, rosterVars, teamVars, playerVars, rankVars, aggVars, mainVars, depthVars >>
SpecRows == InitRows /\ [][NextRows]_vars

\* The defense ranking of one defense_stats.csv
InitRank ==
    NormIdle /\ RosterInit /\ TeamIdle /\ PlayerIdle /\ RowInit /\ RankInit /\ AggIdle /\ MainIdle /\ DepthIdle
NextRank ==
    Rank
    /\ UNCHANGED << normVars, rosterVars, teamVars, playerVars, rowVars, aggVars, mainVars, depthVars >>
SpecRank == InitRank /\ [][NextRank]_vars

\* Game logs to matchup aggregates
InitAgg ==
    NormIdle /\ RosterInit /\ TeamIdle /\ PlayerIdle /\ RowInit /\ RankIdle /\ AggInit /\ MainIdle /\ DepthIdle
NextAgg ==
    \/ LoadGamelogs /\ UNCHANGED << normVars, rosterVars, teamVars, playerVars, rowVars,
                                    rankVars, mainVars, depthVars >>
    \/ Analyze /\ UNCHANGED << normVars, rosterVars, teamVars, playerVars, rowVars, rankVars,
                               mainVars, depthVars >>
    \/ Reanalyze /\ UNCHANGED << normVars, rosterVars, teamVars, playerVars, rowVars, rankVars,
                                 mainVars, depthVars >>
SpecAgg == InitAgg /\ [][NextAgg]_vars

\* A run of compare_rb_vs_defenses.main
InitMain ==
    NormIdle /\ RosterInit /\ TeamIdle /\ PlayerIdle /\ RowInit /\ MainInit /\ DepthIdle
NextMain ==
    \/ MainRank /\ UNCHANGED << normVars, rosterVars, teamVars, playerVars, rowVars, depthVars >>
    \/ MainLoad /\ UNCHANGED << normVars, rosterVars, teamVars, playerVars, rowVars, depthVars >>
    \/ MainAnalyze /\ UNCHANGED << normVars, rosterVars, teamVars, playerVars, rowVars, depthVars >>
    \/ MainSave /\ UNCHANGED << normVars, rosterVars, teamVars, playerVars, rowVars, depthVars >>
SpecMain == InitMain /\ [][NextMain]_vars

\* The team loop of the depth-chart scraper
InitDepth ==
    NormIdle /\ RosterInit /\ TeamIdle /\ PlayerIdle /\ RowInit /\ RankIdle /\ AggIdle
    /\ MainIdle /\ DepthInit
NextDepth ==
    DepthIter
    /\ UNCHANGED << normVars, rosterVars, teamVars, playerVars, rowVars, rankVars, aggVars,
                    mainVars >>
SpecDepth == InitDepth /\ [][NextDepth]_vars

\* The comparison run is the default specification
Spec == SpecAgg

(***************************************************************************)
(* Claims                                                                  *)
(***************************************************************************)
\* The record appended for the row just visited
LastGame == games[Len(games)]
\* The fields the extractor attempts on a row: rushing, and receiving past the gate
AttemptedFields(cell_texts) ==
    Range(RushingFields)
    \cup (IF Len(cell_texts) > RecvGate THEN Range(ReceivingFields) ELSE {})
\* A cell parses for its field: a number for int and float, digits for the long
Parsable(kind, t) ==
    CASE kind = "int" -> IntOk(t)
      [] kind = "float" -> FloatOk(t)
      [] kind = "lng" -> IsDigitStr(t)

\* C1: each numeric field is coerced on its own: for a row of at least 8 cells the
\* row yields a record, a field whose cell parses holds the parsed value, and a
\* field whose cell is empty or does not parse is absent -- whatever the other
\* cells hold.
C1_EachFieldCoercedAlone ==
    (row_i > 0 /\ Len(cells) >= MinCells) =>
        /\ Len(games) > 0
        /\ LastGame.date = cells[1]
        /\ \A f \in AttemptedFields(cells) :
              Field(LastGame, f[1]) =
                  IF Parsable(f[3], cells[f[2]]) THEN Some(
                        IF f[3] = "float" THEN FloatValue(cells[f[2]]) ELSE IntValue(cells[f[2]]))
                  ELSE Absent

\* C6: a row yields a record exactly when it has at least 8 cells, and when cells
\* 3, 4, 6 and 7 (counted from 0) are digit strings the record's rushing attempts,
\* yards, touchdowns and long are their integer values.
C6_RecordIffEightCells ==
    [][ /\ (Len(games') = Len(games) + 1) <=> (Len(cells') >= MinCells)
        /\ (Len(games') = Len(games)) <=> (Len(cells') < MinCells)
        /\ (Len(cells') >= MinCells /\ \A k \in { 4, 5, 7, 8 } : IsDigitStr(cells'[k])) =>
              LET g == games'[Len(games')]
              IN  /\ Field(g, "rushing_attempts") = Some(IntValue(cells'[4]))
                  /\ Field(g, "rushing_yards") = Some(IntValue(cells'[5]))
                  /\ Field(g, "rushing_td") = Some(IntValue(cells'[7]))
                  /\ Field(g, "rushing_lng") = Some(IntValue(cells'[8])) ]_vars

\* The opponent key as the normaliser is described: one leading "@" or "vs" is
\* stripped, the rest lower-cased and trimmed, and more than 3 characters left
\* is unresolved
DescribedOpponent(s) ==
    LET rest == IF StartsWith(s, << "@" >>) THEN Tail(s)
                ELSE IF StartsWith(s, << "v", "s" >>) THEN Tail(Tail(s))
                ELSE s
        opp == StrStrip(StrLower(rest))
    IN  IF Len(opp) > 3 THEN None ELSE opp

\* C3: for every opponent text the normaliser returns the lower-cased, trimmed
\* rest after one leading "@" or "vs" when that rest has at most 3 characters,
\* and no key when it is longer.
C3_OneLeadingMarkerStripped ==
    (opp_pc = "done" /\ opp_string # NaN /\ opp_string # << >>) =>
        opp_abbrev = DescribedOpponent(opp_string)

\* C2: a ranking that returns never holds an unresolved entry in either tier:
\* a team whose name is not in the table, inside a slice, is reported instead.
C2_UnresolvedTeamSurfaced ==
    rank_pc = "done" => NaN \notin Range(top16_defenses) \cup Range(bottom16_defenses)

\* The yards of a row of defense_stats.csv, for a row that holds a number
RowYards(row) == IntValue(StrRemoveAll(row[2], << "," >>))
\* 32 rows, one for each known team, each with a number, the numbers all different
FullDistinctTable ==
    /\ Len(csv_def) = LeagueSize
    /\ { csv_def[i][1] : i \in DOMAIN csv_def } = DictKeys(TEAM_NAME_TO_ABBREV)
    /\ \A i \in DOMAIN csv_def : IntOk(StrRemoveAll(csv_def[i][2], << "," >>))
    /\ \A i, j \in DOMAIN csv_def : i # j => RowYards(csv_def[i]) # RowYards(csv_def[j])
\* The keys of the rows with fewer than n rows below them, and of those with
\* fewer than n rows above them
LowestTeams(n) ==
    { MapDict(TEAM_NAME_TO_ABBREV, csv_def[i][1]) : i \in { i \in DOMAIN csv_def :
        Cardinality({ j \in DOMAIN csv_def : RowYards(csv_def[j]) < RowYards(csv_def[i]) }) < n } }
HighestTeams(n) ==
    { MapDict(TEAM_NAME_TO_ABBREV, csv_def[i][1]) : i \in { i \in DOMAIN csv_def :
        Cardinality({ j \in DOMAIN csv_def : RowYards(csv_def[j]) > RowYards(csv_def[i]) }) < n } }
TiersSplitTable ==
    /\ rank_pc = "done"
    /\ Range(top16_defenses) = LowestTeams(TierSize)
    /\ Range(bottom16_defenses) = HighestTeams(TierSize)
    /\ Range(top16_defenses) \cap Range(bottom16_defenses) = {}
    /\ Cardinality(Range(top16_defenses) \cup Range(bottom16_defenses)) = LeagueSize

\* C8: on 32 rows for the 32 known teams with pairwise different yards, in any
\* order, the ranking returns the 16 lowest as top16 and the 16 highest as
\* bottom16, disjoint and 32 teams together.
C8_TiersOfDistinctTable ==
    (rank_pc # "call" /\ FullDistinctTable) => TiersSplitTable

\* all_rows as the claim gives it: the rosters of the first n teams whose page was
\* served and parsed, in order
RECURSIVE RowsOfServed(_)
RowsOfServed(n) ==
    IF n = 0 THEN << >>
    ELSE LET team == TeamsToScrape(team_abbrevs)[n]
         IN  RowsOfServed(n - 1)
             \o (IF ServedFor(team).status = "ok"
                 THEN fetch_team_roster(team, ServedFor(team).links) ELSE << >>)

\* all_games as the claim gives it: the games of the first n players whose page
\* was served and read, in order
RECURSIVE GamesOfServed(_)
GamesOfServed(n) ==
    IF n = 0 THEN << >>
    ELSE LET row == starters[n]
             served == logs[row.player_id]
         IN  GamesOfServed(n - 1)
             \o (IF served.status = "ok"
                 THEN RowLoop(<< >>, row.player_id, row.player_name, row.team, served.rows, 1)
                 ELSE << >>)

GamesAgainst(p, defenses) ==
    { i \in DOMAIN df_games :
        /\ df_games[i].player_name = p
        /\ normalize_opponent_abbrev(df_games[i].opponent) # None
        /\ normalize_opponent_abbrev(df_games[i].opponent) \in Range(defenses) }
PlayerNames == { df_games[i].player_name : i \in DOMAIN df_games }
\* One entry for p exactly when p has a game against the tier, counting those games
OneEntryPerPlayer(tier_results, defenses) ==
    /\ \A k \in DOMAIN tier_results : tier_results[k].player_name \in PlayerNames
    /\ \A p \in PlayerNames :
        LET entries == { k \in DOMAIN tier_results : tier_results[k].player_name = p }
            n == Cardinality(GamesAgainst(p, defenses))
        IN  /\ Cardinality(entries) = (IF n > 0 THEN 1 ELSE 0)
            /\ \A k \in entries : tier_results[k].games = n

\* C5: a (player, tier) pair has one aggregate exactly when the player has a game
\* whose resolved opponent is in the tier, with games_count the number of such
\* games; no game against the tier gives no entry, and a game with an unresolved
\* opponent counts for no tier.  (A player is a player_name, the grouping key.)
C5_OneAggregatePerPlayerTier ==
    agg_pc = "done" =>
        /\ OneEntryPerPlayer(results_top, tiers[1])
        /\ OneEntryPerPlayer(results_bottom, tiers[2])

\* A player with an entry for one tier and none for the other, who also has a game
\* with an unresolved opponent
C5_Witness ==
    /\ agg_pc = "done"
    /\ \E p \in PlayerNames :
        /\ \E k \in DOMAIN results_top : results_top[k].player_name = p
        /\ \A k \in DOMAIN results_bottom : results_bottom[k].player_name # p
        /\ \E i \in DOMAIN df_games :
              /\ df_games[i].player_name = p
              /\ normalize_opponent_abbrev(df_games[i].opponent) = None

RECURSIVE SumOver(_, _)
SumOver(S, key) ==
    IF S = {} THEN 0
    ELSE LET i == CHOOSE j \in S : TRUE
         IN  df_games[i][key][1] + SumOver(S \ { i }, key)
\* The summed yards of every entry are the yards of its games that hold yards, and
\* an entry holds an average only when its summed attempts are positive
SumsOverPresent(tier_results, defenses) ==
    \A k \in DOMAIN tier_results :
        LET mine == GamesAgainst(tier_results[k].player_name, defenses)
        IN  /\ tier_results[k].rushing_yards =
                  SumOver({ i \in mine : df_games[i].rushing_yards # Absent }, "rushing_yards")
            /\ "rushing_avg" \in DOMAIN tier_results[k] => tier_results[k].rushing_attempts > 0
            /\ tier_results[k].rushing_attempts =
                  SumOver({ i \in mine : df_games[i].rushing_attempts # Absent },
                          "rushing_attempts")

\* C7: a row with an empty yards cell gives a game whose rushing_yards is absent,
\* not 0; the summed yards of an aggregate are the sum over the games that hold
\* yards; and the rushing average is there only when the summed attempts are positive.
C7_AbsentYardsNotZero ==
    /\ agg_pc # "load" =>
          \A i \in DOMAIN log_rows :
              log_rows[i].cells[5] = << >> => df_games[i].rushing_yards = Absent
    /\ agg_pc = "done" =>
          /\ SumsOverPresent(results_top, tiers[1])
          /\ SumsOverPresent(results_bottom, tiers[2])

\* An aggregate over a game with 80 yards and a game without yards: 80 in all
C7_Witness ==
    /\ agg_pc = "done"
    /\ \E k \in DOMAIN results_top :
        LET mine == GamesAgainst(results_top[k].player_name, tiers[1])
        IN  /\ \E i \in mine : log_rows[i].cells[5] = << >>
            /\ \E i \in mine : df_games[i].rushing_yards = Some(80)
            /\ results_top[k].games = 2
            /\ results_top[k].rushing_yards = 80
            /\ "rushing_avg" \in DOMAIN results_top[k]

\* A link the extractor keeps when its id is new
Qualifies(a) == a.href_match /\ a.text # << >> /\ IsRB(a)
LinksOf(id) == { i \in DOMAIN page : Qualifies(page[i]) /\ page[i].href_id = id }
EntriesOf(id) == { k \in DOMAIN results : results[k].player_id = id }
Least(S) == CHOOSE i \in S : \A j \in S : i <= j

\* C9: one pass over a page never gives two entries with the same player_id: the
\* qualifying links of an id give exactly one entry, taken from the first of them.
C9_OneEntryPerPlayerId ==
    \A id \in { page[i].href_id : i \in DOMAIN page } \cup { results[k].player_id : k \in DOMAIN results } :
        IF LinksOf(id) = {} THEN EntriesOf(id) = {}
        ELSE /\ Cardinality(EntriesOf(id)) = 1
             /\ \A k \in EntriesOf(id) : results[k].player_name = page[Least(LinksOf(id))].text

\* Two qualifying links of one id under different names, and its entry
C9_Witness ==
    \E id \in { page[i].href_id : i \in DOMAIN page } :
        /\ \E i, j \in LinksOf(id) : i < j /\ page[i].text # page[j].text
        /\ EntriesOf(id) # {}

\* The display name of a team key
FullName(k) == CHOOSE name \in DictKeys(TEAM_NAME_TO_ABBREV) : DictGet(TEAM_NAME_TO_ABBREV, name) = k

\* C10: the name table has 32 entries with pairwise different values, which are
\* the 32 abbreviations of both scrapers' lists; every key is the value of its
\* display name and the key of its own abbreviation; and a ranking of the 32
\* names returns all 32 keys.
C10_TeamTablesBijective ==
    /\ Len(TEAM_NAME_TO_ABBREV) = LeagueSize
    /\ Cardinality(DictKeys(TEAM_NAME_TO_ABBREV)) = LeagueSize
    /\ Cardinality(DictValues(TEAM_NAME_TO_ABBREV)) = LeagueSize
    /\ Len(TEAM_ABBREVS) = LeagueSize
    /\ Len(TEAM_ABBREVS_starting_rbs) = LeagueSize
    /\ DictValues(TEAM_NAME_TO_ABBREV) = Range(TEAM_ABBREVS)
    /\ Range(TEAM_ABBREVS) = Range(TEAM_ABBREVS_starting_rbs)
    /\ \A k \in Range(TEAM_ABBREVS) :
          /\ MapDict(TEAM_NAME_TO_ABBREV, FullName(k)) = k
          /\ normalize_opponent_abbrev(k) = k
          /\ normalize_opponent_abbrev(<< "@" >> \o StrUpper(k)) = k
    /\ (rank_pc = "done" /\ { csv_def[i][1] : i \in DOMAIN csv_def } = DictKeys(TEAM_NAME_TO_ABBREV)) =>
          Range(top16_defenses) \cup Range(bottom16_defenses) = Range(TEAM_ABBREVS)

\* A ranking of the 32 display names that returned the 32 keys
C10_Witness ==
    /\ rank_pc = "done"
    /\ { csv_def[i][1] : i \in DOMAIN csv_def } = DictKeys(TEAM_NAME_TO_ABBREV)
    /\ Cardinality(Range(top16_defenses) \cup Range(bottom16_defenses)) = LeagueSize

\* A yards text that is no integer once its thousands separators are stripped
NoInteger(t) == ~IntOk(StrStrip(StrRemoveAll(t, << "," >>)))

\* C11: when a row of the defense table holds a yards text that is no integer
\* after its separators are stripped, the run ends at the ranking with an error:
\* no game log is loaded or aggregated and neither output file is written.
C11_BadYardsFailWholeRun ==
    (\E i \in DOMAIN csv_def : NoInteger(csv_def[i][2])) =>
        /\ main_pc \in { "rank", "raised" }
        /\ main_pc = "raised" => rank_pc \in { "ValueError", "AttributeError" }
        /\ df_games = << >>
        /\ results_top = << >> /\ results_bottom = << >>
        /\ out_top = Unwritten /\ out_bottom = Unwritten

\* A run ended by the ValueError of a cell that holds text but no integer
C11_Witness ==
    /\ main_pc = "raised"
    /\ rank_pc = "ValueError"
    /\ \E i \in DOMAIN csv_def : NoInteger(csv_def[i][2]) /\ ~IsNAText(csv_def[i][2])

RECURSIVE ShortTokens(_)
ShortTokens(tds) ==
    IF tds = << >> THEN << >>
    ELSE LET tok == FirstToken(StrStrip(tds[1]))
         IN  (IF tok # << >> /\ Len(tok) <= ShortToken THEN << tok >> ELSE << >>)
             \o ShortTokens(Tail(tds))
\* A link in a row none of whose cells holds the position as a whole word, and
\* some cell of which starts with a short token
FallbackLink(a) ==
    /\ a.href_match /\ a.text # << >> /\ a.parent_tr
    /\ \A k \in DOMAIN a.tds : ~WholeWordRB(StrStrip(a.tds[k]))
    /\ ShortTokens(a.tds) # << >>
\* The links of such rows resolve to the token chosen, and the only link of a page
\* is kept exactly when that token holds "RB"
Chosen(toks, which) == IF which = "first" THEN toks[1] ELSE toks[Len(toks)]
FallbackIs(which) ==
    /\ \A i \in DOMAIN page :
          FallbackLink(page[i]) =>
              PositionText(page[i]) = Chosen(ShortTokens(page[i].tds), which)
    /\ (Len(page) = 1 /\ FallbackLink(page[1])) =>
          (results # << >> <=>
              Contains(StrUpper(Chosen(ShortTokens(page[1].tds), which)), T_RB))

\* C13 as stated: when no cell of the row holds the position as a whole word,
\* the position is the first short token of the row, and a later short token never
\* replaces it (cells "RB1" then "WR" resolve to "RB1" and the player is kept).
C13_FirstShortTokenKept == FallbackIs("first")

\* C13 as the code has it: when no cell of the row holds the position as a whole
\* word, the position is the last short token of the row, each short token
\* replacing the one before (cells "RB1" then "WR" resolve to "WR" and the player
\* is dropped).
C13_LastShortTokenKept == FallbackIs("last")

\* A page of one link whose row holds "RB1" before "WR": the player is dropped
C13_Witness ==
    /\ Len(page) = 1
    /\ FallbackLink(page[1])
    /\ ShortTokens(page[1].tds) = << T_RB1, T_WR >>
    /\ PositionText(page[1]) = T_WR
    /\ results = << >>

\* The team of the first game of player p in the frame, in input order
FirstGameTeam(p) ==
    df_games[Least({ i \in DOMAIN df_games : df_games[i].player_name = p })].team

\* C14: the team of every aggregate of a player is the team of the first game of
\* the player's group in input order, also when that game has an unresolved
\* opponent and counts for no tier.
C14_TeamOfFirstGame ==
    agg_pc = "done" =>
        /\ \A k \in DOMAIN results_top :
              results_top[k].team = FirstGameTeam(results_top[k].player_name)
        /\ \A k \in DOMAIN results_bottom :
              results_bottom[k].team = FirstGameTeam(results_bottom[k].player_name)

\* The team keys of the table in the order of the stable ascending sort
StableRanking ==
    LET st == StableOrder([i \in DOMAIN csv_def |-> RowYards(csv_def[i])])
    IN  [p \in DOMAIN csv_def |-> MapDict(TEAM_NAME_TO_ABBREV, csv_def[st[p]][1])]

\* C15: the ranking is a stable ascending sort: rows are ordered by ascending
\* yards and rows with equal yards keep their source order, so the two tiers
\* are the first 16 and the last 16 of that order, also when a tie spans the
\* 16/17 boundary.
C15_StableAscendingSort ==
    rank_pc = "done" =>
        /\ top16_defenses = HeadN(StableRanking, TierSize)
        /\ bottom16_defenses = LastN(StableRanking, TierSize)

\* The starter of a page as the resolver is described: the identity of the first
\* player-profile link of the player row aligned with the first position row that
\* holds RB; not found without the two tables, without such a position row,
\* without the aligned row or without a player link in it -- and, when
\* `named` is asked for, also when that first link has no text
DescribedStarter(soup, named) ==
    IF ~soup.div \/ Len(soup.tables) < 2 THEN NotFound
    ELSE LET pos == SkipHeader(soup.tables[1])
             players == SkipHeader(soup.tables[2])
             rb == { i \in DOMAIN pos : Contains(pos[i].text, T_RB) }
         IN  IF rb = {} THEN NotFound
             ELSE IF Least(rb) \notin DOMAIN players THEN NotFound
             ELSE LET links == players[Least(rb)].links
                      profile == { j \in DOMAIN links : links[j].href_match }
                  IN  IF profile = {} THEN NotFound
                      ELSE IF named /\ links[Least(profile)].text = << >> THEN NotFound
                      ELSE Found([ player_name |-> links[Least(profile)].text,
                                   player_id |-> links[Least(profile)].href_id ])
\* The rows of the first n teams, each team giving the described starter of its
\* page, or nothing
RECURSIVE DescribedRows(_, _)
DescribedRows(n, named) ==
    IF n = 0 THEN << >>
    ELSE LET team == DepthTeamsToScrape(depth_abbrevs)[n]
             served == DepthServedFor(team)
             player == IF served.status = "ok" THEN DescribedStarter(served.soup, named)
                       ELSE NotFound
         IN  DescribedRows(n - 1, named)
             \o (IF player = NotFound THEN << >>
                 ELSE << [ team |-> team, player_name |-> player[1].player_name,
                           player_id |-> player[1].player_id, depth_rank |-> "RB1" ] >>)

\* C16 as stated: a team's entry is the identity of the first player-profile link
\* of the player row aligned with the first position row holding RB, also when
\* the tables differ in length; there is no entry, and no error, without the two
\* tables, without the position, or without a player link in the aligned row;
\* each team gives 0 or 1 entry.
C16_FirstLinkOfAlignedRow ==
    /\ depth_rows = DescribedRows(depth_i, FALSE)
    /\ Len(depth_rows) <= depth_i
    /\ depth_i < Len(DepthTeamsToScrape(depth_abbrevs)) => ENABLED DepthIter

\* C16 as the code has it: the same, and there is also no entry when the first
\* player-profile link of the aligned row has no text (a later link of the row
\* is not taken in its place).
C16_FirstNamedLinkOrNothing ==
    /\ depth_rows = DescribedRows(depth_i, TRUE)
    /\ Len(depth_rows) <= depth_i
    /\ depth_i < Len(DepthTeamsToScrape(depth_abbrevs)) => ENABLED DepthIter

\* A team visited whose tables differ in length and whose aligned row starts with
\* a profile link without text, a named link after it: no entry for the team
C16_Witness ==
    /\ depth_abbrevs = << << "n", "y", "g" >> >>
    /\ depth_i = 1
    /\ depth_web[<< "n", "y", "g" >>].status = "ok"
    /\ LET soup == depth_web[<< "n", "y", "g" >>].soup
       IN  /\ soup.div /\ Len(soup.tables) = 2
           /\ Len(soup.tables[1]) # Len(soup.tables[2])
           /\ DescribedStarter(soup, FALSE) # NotFound
           /\ DescribedStarter(soup, FALSE)[1].player_name = << >>
    /\ depth_rows = << >>

\* C17: given a restricted list of teams, a batch entry point processes the teams
\* of the list, in list order, and no other team: the teams visited are a prefix
\* of the list and every output row is of a team of the list -- for every list,
\* the empty list (no team processed) included.
C17_OnlyListedTeams ==
    /\ team_i <= Len(team_abbrevs)
    /\ team_log = SubSeq(team_abbrevs, 1, team_i)
    /\ \A k \in DOMAIN all_rows : all_rows[k].team \in Range(team_abbrevs)

====
